---- MODULE Spec2Model ----
(***************************************************************************)
(* Background removal (rmbg-tauri): the image <-> tensor pipeline of       *)
(* src-tauri/src/rmbg.rs and the command handler of src-tauri/src/lib.rs.  *)
(*                                                                         *)
(* Images are records [w, h, ch, buf]: buf is the flat byte buffer, ch the *)
(* number of channels per pixel (4 = RGBA8, 3 = RGB8).  f32 values are     *)
(* records [kind, num, den]: a finite value num/den (den > 0), a NaN, or a *)
(* signed infinity (num = 1 or -1).                                        *)
(***************************************************************************)
EXTENDS Integers, Sequences, FiniteSets, TLC

VARIABLES pc, calls, loads, session, original, img_vec, tensor, outputs,
          view, image, mask, ret, trace, failed

vars == <<pc, calls, loads, session, original, img_vec, tensor, outputs,
          view, image, mask, ret, trace, failed>>

(*************************** bounds of the model ***************************)
\* ML_MODEL_IMAGE_WIDTH = ML_MODEL_IMAGE_HEIGHT = 1024 in the source; the
\* model keeps them equal and scales both down to ModelSize.
ModelSize == 2
\* width and height of an original image range over 1..MaxDim
MaxDim == 2
\* finite raw scores range over -1..MaxScore
MaxScore == 1
\* invocations of the command in one process
MaxCalls == 2
\* the outcomes of one resampling that the model enumerates: 1..MaxPhase
MaxPhase == 1

ML_MODEL_IMAGE_WIDTH == ModelSize
ML_MODEL_IMAGE_HEIGHT == ModelSize

(******************************* helpers ***********************************)
Min(a, b) == IF a <= b THEN a ELSE b

RECURSIVE Product(_)
Product(s) == IF s = <<>> THEN 1 ELSE Head(s) * Product(Tail(s))

RECURSIVE Concat(_)
\* [a, b, c].concat()
Concat(ss) == IF ss = <<>> THEN <<>> ELSE Head(ss) \o Concat(Tail(ss))

IsPrefix(s, t) == Len(s) <= Len(t) /\ SubSeq(t, 1, Len(s)) = s

NoImage == [w |-> 0, h |-> 0, ch |-> 4, buf |-> <<>>]
NoTensor == [shape |-> <<>>, data |-> <<>>]
NoRet == [kind |-> "none", err |-> "", img |-> NoImage]
Ok(img) == [kind |-> "ok", err |-> "", img |-> img]
Err(tag) == [kind |-> "err", err |-> tag, img |-> NoImage]

(******************************* images ************************************)
\* DynamicImage::to_rgba8: an RGB8 buffer gains an opaque alpha byte.
to_rgba8(img) ==
    IF img.ch = 4 THEN img
    ELSE [w |-> img.w, h |-> img.h, ch |-> 4,
          buf |-> [j \in 1..(4 * img.w * img.h) |->
                     IF (j - 1) % 4 = 3 THEN 255
                     ELSE img.buf[3 * ((j - 1) \div 4) + ((j - 1) % 4) + 1]]]

InBounds(img, x, y) == x >= 0 /\ x < img.w /\ y >= 0 /\ y < img.h

\* GenericImageView::get_pixel of a DynamicImage: the pixel at (x, y) as RGBA.
\* Only defined InBounds (the image crate panics otherwise).
get_pixel(img, x, y) ==
    LET base == img.ch * (y * img.w + x)
    IN  IF img.ch = 4
        THEN <<img.buf[base + 1], img.buf[base + 2], img.buf[base + 3], img.buf[base + 4]>>
        ELSE <<img.buf[base + 1], img.buf[base + 2], img.buf[base + 3], 255>>

\* ImageBuffer::from_raw(width, height, buf): None when the buffer is too small.
from_raw_ok(width, height, buf) == Len(buf) >= 4 * width * height
from_raw(width, height, buf) == [w |-> width, h |-> height, ch |-> 4, buf |-> buf]

(***************************** resize_rgba *********************************)
\* fast_image_resize's rounded c * a / 255 (MulDiv::multiply_alpha on U8x4)
mul_div_255(c, a) ==
    LET tmp == c * a + 128
    IN  ((tmp \div 256) + tmp) \div 256

\* fast_image_resize's reciprocal table for divide_alpha; 0 for alpha 0
recip_alpha(a) == IF a = 0 THEN 0 ELSE (((255 * 512) \div a) + 1) \div 2

div_and_clip(c, a) == Min((c * recip_alpha(a)) \div 256, 255)

\* alpha_mul_div.multiply_alpha_inplace_typed: RGB of each pixel times its alpha
multiply_alpha(buf) ==
    [j \in 1..Len(buf) |->
       IF (j - 1) % 4 = 3 THEN buf[j]
       ELSE mul_div_255(buf[j], buf[j - ((j - 1) % 4) + 3])]

\* alpha_mul_div.divide_alpha_inplace_typed: RGB of each pixel divided by its
\* alpha, RGB left at 0 where alpha is 0
divide_alpha(buf) ==
    [j \in 1..Len(buf) |->
       IF (j - 1) % 4 = 3 THEN buf[j]
       ELSE div_and_clip(buf[j], buf[j - ((j - 1) % 4) + 3])]

\* resizer.resize_typed(src, dst, None).  Equal sizes: the pixels are copied.
\* Otherwise the convolution's arithmetic is the library's; every destination
\* pixel is taken from the source, which one being the library's choice k.
resize_typed(buf, sw, sh, tw, th, k) ==
    IF sw = tw /\ sh = th THEN buf
    ELSE LET n == sw * sh
         IN  [j \in 1..(4 * tw * th) |->
                buf[4 * ((((j - 1) \div 4) + k) % n) + ((j - 1) % 4) + 1]]

\* resize_rgba with width and height of the source exchanged
resize_rgba_transposed(img, target_width, target_height, k) ==
    divide_alpha(resize_typed(multiply_alpha(to_rgba8(img).buf),
                              img.h, img.w, target_width, target_height, k))

\* resize_rgba(img, target_width, target_height): the Vec<u8> it returns on
\* success; k is the resampling outcome.
resize_rgba(img, target_width, target_height, k) ==
    LET src_image == to_rgba8(img).buf
        premultiplied == multiply_alpha(src_image)
        dst_image == resize_typed(premultiplied, img.w, img.h,
                                  target_width, target_height, k)
    IN  divide_alpha(dst_image)

(************************** preprocess_image *******************************)
\* rationals <<num, den>>, den > 0
RSub(a, b) == <<a[1] * b[2] - b[1] * a[2], a[2] * b[2]>>
RDiv(a, b) == <<a[1] * b[2], a[2] * b[1]>>
REq(a, b) == a[1] * b[2] = b[1] * a[2]

\* normalize_image: (img - mean) / std with mean 0.5 and std 1.0
normalize_image(data) == [j \in 1..Len(data) |-> RDiv(RSub(data[j], <<1, 2>>), <<1, 1>>)]

\* the channel vectors r_vec, g_vec, b_vec: byte c of every 4-byte chunk
channel_vec(vec, c) == [i \in 1..(Len(vec) \div 4) |-> vec[4 * (i - 1) + c + 1]]

\* Array3::from_shape_vec((3, WIDTH, HEIGHT), v) fails unless the lengths agree
from_shape_vec_ok(v) == Len(v) = 3 * ML_MODEL_IMAGE_WIDTH * ML_MODEL_IMAGE_HEIGHT

\* the pixels left interleaved (RGB per pixel) instead of planar
preprocess_interleaved(vec) ==
    [shape |-> <<3, ML_MODEL_IMAGE_WIDTH, ML_MODEL_IMAGE_HEIGHT>>,
     data |-> normalize_image(
                [j \in 1..(3 * (Len(vec) \div 4)) |->
                   <<vec[4 * ((j - 1) \div 3) + ((j - 1) % 3) + 1], 255>>])]

\* preprocess_image after its resize: img_vec -> Array3<f32>
preprocess_tensor(vec) ==
    LET reordered_vec == Concat(<<channel_vec(vec, 0), channel_vec(vec, 1),
                                  channel_vec(vec, 2)>>)
        img_float == [j \in 1..Len(reordered_vec) |-> <<reordered_vec[j], 255>>]
    IN  [shape |-> <<3, ML_MODEL_IMAGE_WIDTH, ML_MODEL_IMAGE_HEIGHT>>,
         data |-> normalize_image(img_float)]

(****************************** f32 values *********************************)
Fin(n, d) == [kind |-> "fin", num |-> n, den |-> d]
NaN == [kind |-> "nan", num |-> 0, den |-> 1]
Inf(sign) == [kind |-> "inf", num |-> sign, den |-> 1]
Sign(n) == IF n < 0 THEN -1 ELSE 1

\* a - b
FSub(a, b) ==
    IF a.kind = "nan" \/ b.kind = "nan" THEN NaN
    ELSE IF a.kind = "inf"
         THEN IF b.kind = "inf" /\ b.num = a.num THEN NaN ELSE a
    ELSE IF b.kind = "inf" THEN Inf(-b.num)
    ELSE Fin(a.num * b.den - b.num * a.den, a.den * b.den)

\* a / b
FDiv(a, b) ==
    IF a.kind = "nan" \/ b.kind = "nan" THEN NaN
    ELSE IF a.kind = "inf"
         THEN IF b.kind = "inf" THEN NaN ELSE Inf(a.num * Sign(b.num))
    ELSE IF b.kind = "inf" THEN Fin(0, 1)
    ELSE IF b.num = 0
         THEN IF a.num = 0 THEN NaN ELSE Inf(Sign(a.num))
    ELSE Fin(a.num * b.den * Sign(b.num), a.den * b.num * Sign(b.num))

\* a * 255.0
FMul255(a) == IF a.kind = "fin" THEN Fin(a.num * 255, a.den) ELSE a

\* a < b, for values partial_cmp orders (neither is a NaN)
FLess(a, b) ==
    IF a.kind = "inf" THEN a.num = -1 /\ ~(b.kind = "inf" /\ b.num = -1)
    ELSE IF b.kind = "inf" THEN b.num = 1
    ELSE a.num * b.den < b.num * a.den

\* a cast that sends NaN to the top of the range
as_u8_nan_max(a) ==
    IF a.kind = "nan" THEN 255
    ELSE IF a.kind = "inf" THEN (IF a.num = 1 THEN 255 ELSE 0)
    ELSE IF a.num <= 0 THEN 0
    ELSE Min(a.num \div a.den, 255)

\* x as u8: saturating, truncating toward zero, NaN to 0
as_u8(a) ==
    IF a.kind = "nan" THEN 0
    ELSE IF a.kind = "inf" THEN (IF a.num = 1 THEN 255 ELSE 0)
    ELSE IF a.num <= 0 THEN 0
    ELSE Min(a.num \div a.den, 255)

(************************* postprocess_image *******************************)
\* a 2-D view is [h, w, data], data in row-major (logical) order
NoView == [h |-> 0, w |-> 0, data |-> <<>>]

\* partial_cmp(..).unwrap() panics as soon as a NaN is compared; iter().max_by
\* and min_by compare every element once there are two or more
partial_cmp_panics(data) ==
    Len(data) >= 2 /\ \E i \in 1..Len(data) : data[i].kind = "nan"

RECURSIVE max_by(_, _)
\* the fold of Iterator::max_by: the later element wins a tie
max_by(data, acc) ==
    IF data = <<>> THEN acc
    ELSE max_by(Tail(data), IF FLess(Head(data), acc) THEN acc ELSE Head(data))

RECURSIVE min_by(_, _)
\* the fold of Iterator::min_by: the earlier element wins a tie
min_by(data, acc) ==
    IF data = <<>> THEN acc
    ELSE min_by(Tail(data), IF FLess(Head(data), acc) THEN Head(data) ELSE acc)

\* result_u8: ((x - mi) / (ma - mi) * 255.0) as u8 for every score
result_u8(data) ==
    LET ma == max_by(Tail(data), Head(data))
        mi == min_by(Tail(data), Head(data))
    IN  [i \in 1..Len(data) |-> as_u8(FMul255(FDiv(FSub(data[i], mi), FSub(ma, mi))))]

\* the largest index the pixel loop reads: (y * ML_MODEL_IMAGE_WIDTH + x)
last_index == (ML_MODEL_IMAGE_HEIGHT - 1) * ML_MODEL_IMAGE_WIDTH + (ML_MODEL_IMAGE_WIDTH - 1)

\* how postprocess_image ends on a view: with Err, a panic, or the image
postprocess_outcome(v) ==
    IF v.data = <<>> THEN "err"
    ELSE IF partial_cmp_panics(v.data) THEN "panic"
    ELSE IF last_index >= Len(v.data) THEN "panic"
    ELSE "ok"

\* the ImageRgb8 postprocess_image builds: pixel (x, y) is the grey value
\* result_u8[y * ML_MODEL_IMAGE_WIDTH + x], replicated into R, G and B
postprocess_image(v) ==
    LET bytes == result_u8(v.data)
    IN  [w |-> ML_MODEL_IMAGE_WIDTH, h |-> ML_MODEL_IMAGE_HEIGHT, ch |-> 3,
         buf |-> [j \in 1..(3 * ML_MODEL_IMAGE_WIDTH * ML_MODEL_IMAGE_HEIGHT) |->
                    LET p == (j - 1) \div 3
                        x == p % ML_MODEL_IMAGE_WIDTH
                        y == p \div ML_MODEL_IMAGE_WIDTH
                    IN  bytes[(y * ML_MODEL_IMAGE_WIDTH + x) + 1]]]

(***************************** apply_mask **********************************)
\* get_pixel panics when apply_mask walks a coordinate outside the original
apply_mask_panics(original_image, mask_image) ==
    \E x \in 0..(mask_image.w - 1), y \in 0..(mask_image.h - 1) :
        ~InBounds(original_image, x, y)

\* the alpha taken from the mask's own alpha channel
apply_mask_alpha(original_image, mask_image) ==
    [w |-> mask_image.w, h |-> mask_image.h, ch |-> 4,
     buf |-> [j \in 1..(4 * mask_image.w * mask_image.h) |->
                LET p == (j - 1) \div 4
                    x == p % mask_image.w
                    y == p \div mask_image.w
                IN  IF (j - 1) % 4 = 3
                    THEN get_pixel(mask_image, x, y)[4]
                    ELSE get_pixel(original_image, x, y)[((j - 1) % 4) + 1]]]

\* the result given the mask's size transposed
apply_mask_transposed(original_image, mask_image) ==
    [w |-> mask_image.h, h |-> mask_image.w, ch |-> 4,
     buf |-> [j \in 1..(4 * mask_image.w * mask_image.h) |->
                LET p == (j - 1) \div 4
                    x == p % mask_image.w
                    y == p \div mask_image.w
                IN  IF (j - 1) % 4 = 3
                    THEN get_pixel(mask_image, x, y)[1]
                    ELSE get_pixel(original_image, x, y)[((j - 1) % 4) + 1]]]

\* apply_mask: a new RGBA image of the MASK's size whose pixel (x, y) is the
\* original's RGB at (x, y) with the mask's channel 0 at (x, y) as alpha
apply_mask(original_image, mask_image) ==
    [w |-> mask_image.w, h |-> mask_image.h, ch |-> 4,
     buf |-> [j \in 1..(4 * mask_image.w * mask_image.h) |->
                LET p == (j - 1) \div 4
                    x == p % mask_image.w
                    y == p \div mask_image.w
                IN  IF (j - 1) % 4 = 3
                    THEN get_pixel(mask_image, x, y)[1]
                    ELSE get_pixel(original_image, x, y)[((j - 1) % 4) + 1]]]

(****************************** inputs *************************************)
\* sample RGBA pixels: opaque, partly transparent, transparent with colour
\* left in RGB, transparent black, and an opaque grey
Palette == << <<10, 20, 30, 255>>, <<255, 0, 0, 255>>, <<200, 100, 50, 128>>,
              <<9, 8, 7, 0>>, <<0, 0, 0, 0>>, <<200, 200, 200, 255>> >>

\* the buffer of n pixels of ch channels that walks the palette from entry
\* k + 1 in steps of step (step 0: a uniform image)
PatternBuf(n, ch, k, step) ==
    [j \in 1..(ch * n) |->
       Palette[((k + step * ((j - 1) \div ch)) % Len(Palette)) + 1][((j - 1) % ch) + 1]]

Dims == 1..MaxDim

\* decoded images: RGBA8 and RGB8, every size in Dims x Dims
Images ==
    { [w |-> iw, h |-> ih, ch |-> c, buf |-> PatternBuf(iw * ih, c, k, step)] :
        iw \in Dims, ih \in Dims, c \in {3, 4},
        k \in 0..(Len(Palette) - 1), step \in 0..1 }

RgbaImages == {img \in Images : img.ch = 4}

\* the images a run of the command is given
PipelineImages == {img \in Images : img.buf[1] \in {10, 200, 9}}

ScoreVals == {Fin(n, 1) : n \in (-1)..MaxScore} \cup {NaN, Inf(1)}

\* raw scores of n elements: uniform, uniform 0 but for one element, a ramp
ScoreData(n) ==
    { [i \in 1..n |-> v] : v \in ScoreVals }
    \cup { [i \in 1..n |-> IF i = p THEN v ELSE Fin(0, 1)] : p \in 1..n, v \in ScoreVals }
    \cup { [i \in 1..n |-> Fin(((i - 1) % (MaxScore + 2)) - 1, 1)] }

\* the shapes the engine's output tensor may have: the expected
\* (1, 1, H, W), other heights and widths, an empty tensor, other ranks
OutShapes ==
    { <<1, 1, ML_MODEL_IMAGE_HEIGHT, ML_MODEL_IMAGE_WIDTH>>,
      <<1, 1, ML_MODEL_IMAGE_HEIGHT - 1, ML_MODEL_IMAGE_WIDTH>>,
      <<1, 1, ML_MODEL_IMAGE_HEIGHT, ML_MODEL_IMAGE_WIDTH + 1>>,
      <<1, 1, ML_MODEL_IMAGE_HEIGHT + 1, ML_MODEL_IMAGE_WIDTH + 1>>,
      <<1, 1, 0, 0>>,
      <<0, 1, ML_MODEL_IMAGE_HEIGHT, ML_MODEL_IMAGE_WIDTH>>,
      <<ML_MODEL_IMAGE_HEIGHT, ML_MODEL_IMAGE_WIDTH>>,
      <<1, ML_MODEL_IMAGE_HEIGHT, ML_MODEL_IMAGE_WIDTH>> }

Outputs == UNION { { [shape |-> sh, data |-> d] : d \in ScoreData(Product(sh)) } : sh \in OutShapes }

Phases == 1..MaxPhase

(************************ the command and one run **************************)
Init ==
    /\ pc = "idle"
    /\ calls = 0
    /\ loads = 0
    /\ session = 0
    /\ original = NoImage
    /\ img_vec = <<>>
    /\ tensor = NoTensor
    /\ outputs = NoTensor
    /\ view = NoView
    /\ image = NoImage
    /\ mask = NoImage
    /\ ret = NoRet
    /\ trace = <<>>
    /\ failed = "none"

\* the UI invokes remove_bg_from_select(handle, path)
Invoke ==
    /\ pc = "idle"
    /\ calls < MaxCalls
    /\ calls' = calls + 1
    /\ pc' = "new"
    /\ trace' = <<>>
    /\ failed' = "none"
    /\ ret' = NoRet
    /\ UNCHANGED <<loads, session, original, img_vec, tensor, outputs, view, image, mask>>

\* Rmbg::new(resource_path).unwrap(): a session is built from the model file
LoadModel ==
    /\ pc = "new"
    /\ loads' = loads + 1
    /\ session' = loads + 1
    /\ pc' = "open"
    /\ UNCHANGED <<calls, original, img_vec, tensor, outputs, view, image, mask, ret, trace, failed>>

\* Rmbg::new(..) returns Err and the unwrap panics
LoadModelFails ==
    /\ pc = "new"
    /\ pc' = "panicked"
    /\ UNCHANGED <<calls, loads, session, original, img_vec, tensor, outputs, view, image, mask, ret, trace, failed>>

\* image::open(path).unwrap()
OpenImage ==
    /\ pc = "open"
    /\ \E img \in PipelineImages : original' = img
    /\ pc' = "preprocess"
    /\ UNCHANGED <<calls, loads, session, img_vec, tensor, outputs, view, image, mask, ret, trace, failed>>

\* image::open(path) returns Err and the unwrap panics
OpenImageFails ==
    /\ pc = "open"
    /\ pc' = "panicked"
    /\ UNCHANGED <<calls, loads, session, original, img_vec, tensor, outputs, view, image, mask, ret, trace, failed>>

\* remove_background, encode: preprocess_image(original_img)?
Preprocess ==
    /\ pc = "preprocess"
    /\ trace' = Append(trace, "encode")
    /\ \E k \in Phases :
         LET vec == resize_rgba(original, ML_MODEL_IMAGE_WIDTH, ML_MODEL_IMAGE_HEIGHT, k)
             t == preprocess_tensor(vec)
         IN  IF from_shape_vec_ok(t.data)
             THEN /\ img_vec' = vec
                  /\ tensor' = t
                  /\ pc' = "run"
                  /\ UNCHANGED <<ret, failed>>
             ELSE /\ ret' = Err("ShapeError")
                  /\ failed' = "encode"
                  /\ pc' = "returned"
                  /\ UNCHANGED <<img_vec, tensor>>
    /\ UNCHANGED <<calls, loads, session, original, outputs, view, image, mask>>

\* inference: ort::inputs![..]? and self.model.run(inputs)? succeed
Run ==
    /\ pc = "run"
    /\ trace' = Append(trace, "inference")
    /\ \E out \in Outputs : outputs' = out
    /\ pc' = "extract"
    /\ UNCHANGED <<calls, loads, session, original, img_vec, tensor, view, image, mask, ret, failed>>

\* the engine's error recorded but the run carried on with some output
RunFailsIgnored ==
    /\ pc = "run"
    /\ trace' = Append(trace, "inference")
    /\ failed' = "inference"
    /\ \E out \in Outputs : outputs' = out
    /\ pc' = "extract"
    /\ UNCHANGED <<calls, loads, session, original, img_vec, tensor, view, image, mask, ret>>

\* inference: the engine returns an error, which ? returns to the caller
RunFails ==
    /\ pc = "run"
    /\ trace' = Append(trace, "inference")
    /\ ret' = Err("ort::Error")
    /\ failed' = "inference"
    /\ pc' = "returned"
    /\ UNCHANGED <<calls, loads, session, original, img_vec, tensor, outputs, view, image, mask>>

\* the slice s![0, 0, .., ..] panics unless the tensor has 4 axes and the
\* first two are not empty
slice_panics(shape) == Len(shape) # 4 \/ shape[1] = 0 \/ shape[2] = 0

\* view.slice(s![0, 0, .., ..]): the first H x W block of the data
slice(t) == [h |-> t.shape[3], w |-> t.shape[4],
             data |-> SubSeq(t.data, 1, t.shape[3] * t.shape[4])]

\* outputs[ML_MODEL_OUTPUT_NAME].try_extract_tensor()? and the slice
Extract ==
    /\ pc = "extract"
    /\ IF slice_panics(outputs.shape)
       THEN /\ pc' = "panicked"
            /\ failed' = "extract"
            /\ UNCHANGED view
       ELSE /\ view' = slice(outputs)
            /\ pc' = "postprocess"
            /\ UNCHANGED failed
    /\ UNCHANGED <<calls, loads, session, original, img_vec, tensor, outputs, image, mask, ret, trace>>

\* try_extract_tensor returns an error (the output is no f32 tensor)
ExtractFails ==
    /\ pc = "extract"
    /\ ret' = Err("ort::Error")
    /\ failed' = "extract"
    /\ pc' = "returned"
    /\ UNCHANGED <<calls, loads, session, original, img_vec, tensor, outputs, view, image, mask, trace>>

\* decode: postprocess_image(&output)?
Postprocess ==
    /\ pc = "postprocess"
    /\ trace' = Append(trace, "decode")
    /\ LET o == postprocess_outcome(view)
       IN  IF o = "ok"
           THEN /\ image' = postprocess_image(view)
                /\ pc' = "resize"
                /\ UNCHANGED <<ret, failed>>
           ELSE IF o = "err"
           THEN /\ ret' = Err("Should be OK")
                /\ failed' = "decode"
                /\ pc' = "returned"
                /\ UNCHANGED image
           ELSE /\ pc' = "panicked"
                /\ failed' = "decode"
                /\ UNCHANGED <<ret, image>>
    /\ UNCHANGED <<calls, loads, session, original, img_vec, tensor, outputs, view, mask>>

\* mask resize: resize_rgba(&image, original_width, original_height)? and
\* ImageBuffer::from_raw(original_width, original_height, resized)
ResizeMask ==
    /\ pc = "resize"
    /\ trace' = Append(trace, "resize")
    /\ \E k \in Phases :
         LET resized == resize_rgba(image, original.w, original.h, k)
         IN  IF from_raw_ok(original.w, original.h, resized)
             THEN /\ mask' = from_raw(original.w, original.h, resized)
                  /\ pc' = "apply"
                  /\ UNCHANGED <<ret, failed>>
             ELSE /\ ret' = Err("Somehow image was resized to incorrect size")
                  /\ failed' = "resize"
                  /\ pc' = "returned"
                  /\ UNCHANGED mask
    /\ UNCHANGED <<calls, loads, session, original, img_vec, tensor, outputs, view, image>>

\* composite: Ok(apply_mask(original_img, &mask))
ApplyMask ==
    /\ pc = "apply"
    /\ trace' = Append(trace, "composite")
    /\ IF apply_mask_panics(original, mask)
       THEN /\ pc' = "panicked"
            /\ failed' = "composite"
            /\ UNCHANGED ret
       ELSE /\ ret' = Ok(apply_mask(original, mask))
            /\ pc' = "returned"
            /\ UNCHANGED failed
    /\ UNCHANGED <<calls, loads, session, original, img_vec, tensor, outputs, view, image, mask>>

\* remove_bg_from_select: .unwrap() of the run's result; on Ok the PNG is
\* encoded and returned, and the handler's locals (the Rmbg with its session,
\* the images, the tensors) are dropped
Return ==
    /\ pc = "returned"
    /\ IF ret.kind = "err"
       THEN /\ pc' = "panicked"
            /\ UNCHANGED <<session, original, img_vec, tensor, outputs, view, image, mask, ret>>
       ELSE /\ pc' = "idle"
            /\ session' = 0
            /\ original' = NoImage
            /\ img_vec' = <<>>
            /\ tensor' = NoTensor
            /\ outputs' = NoTensor
            /\ view' = NoView
            /\ image' = NoImage
            /\ mask' = NoImage
            /\ ret' = NoRet
    /\ UNCHANGED <<calls, loads, trace, failed>>

Next ==
    \/ Invoke
    \/ LoadModel
    \/ LoadModelFails
    \/ OpenImage
    \/ OpenImageFails
    \/ Preprocess
    \/ Run
    \/ RunFails
    \/ Extract
    \/ ExtractFails
    \/ Postprocess
    \/ ResizeMask
    \/ ApplyMask
    \/ Return

Spec == Init /\ [][Next]_vars

(******************* resize_rgba called on its own *************************)
InitResize ==
    /\ pc = "resize_in"
    /\ original \in Images
    /\ calls = 0
    /\ loads = 0
    /\ session = 0
    /\ img_vec = <<>>
    /\ tensor = NoTensor
    /\ outputs = NoTensor
    /\ view = NoView
    /\ image = NoImage
    /\ mask = NoImage
    /\ ret = NoRet
    /\ trace = <<>>
    /\ failed = "none"

\* resize_rgba(&original, tw, th); mask records the target size and the
\* returned buffer, as ImageBuffer::from_raw(tw, th, resized) does
ResizeCall ==
    /\ pc = "resize_in"
    /\ \E tw \in Dims, th \in Dims, k \in Phases :
         /\ img_vec' = resize_rgba(original, tw, th, k)
         /\ mask' = from_raw(tw, th, img_vec')
    /\ pc' = "resize_out"
    /\ UNCHANGED <<calls, loads, session, original, tensor, outputs, view, image, ret, trace, failed>>

SpecResize == InitResize /\ [][ResizeCall]_vars

(******************** apply_mask called on its own *************************)
InitMask ==
    /\ pc = "mask_in"
    /\ original \in Images
    /\ mask \in RgbaImages
    /\ calls = 0
    /\ loads = 0
    /\ session = 0
    /\ img_vec = <<>>
    /\ tensor = NoTensor
    /\ outputs = NoTensor
    /\ view = NoView
    /\ image = NoImage
    /\ ret = NoRet
    /\ trace = <<>>
    /\ failed = "none"

\* apply_mask(&original, &mask)
ApplyCall ==
    /\ pc = "mask_in"
    /\ IF apply_mask_panics(original, mask)
       THEN /\ pc' = "panicked"
            /\ failed' = "composite"
            /\ UNCHANGED ret
       ELSE /\ ret' = Ok(apply_mask(original, mask))
            /\ pc' = "mask_out"
            /\ UNCHANGED failed
    /\ UNCHANGED <<calls, loads, session, original, img_vec, tensor, outputs, view, image, mask, trace>>

SpecMask == InitMask /\ [][ApplyCall]_vars

(******************************* claims ************************************)
StageOrder == <<"encode", "inference", "decode", "resize", "composite">>

\* the stages that have run when the run fails in stage f
StagesUpTo(f) ==
    IF f = "encode" THEN SubSeq(StageOrder, 1, 1)
    ELSE IF f \in {"inference", "extract"} THEN SubSeq(StageOrder, 1, 2)
    ELSE IF f = "decode" THEN SubSeq(StageOrder, 1, 3)
    ELSE IF f = "resize" THEN SubSeq(StageOrder, 1, 4)
    ELSE StageOrder

SameSize(a, b) == a.w = b.w /\ a.h = b.h

\* C1: every failure of a pipeline stage of a run is returned to the caller
\* as a typed error value, and no stage failure panics the process.
C1_StageFailuresAreErrors ==
    failed # "none" => (pc # "panicked" /\ ret.kind = "err")

\* C2: the stages of one run execute in the order encode, inference, decode,
\* mask resize, composite, each at most once; once a stage has failed no
\* later stage executes and none is retried; an image is returned only when
\* all five stages succeeded.
C2_StagesInOrderAbortOnFailure ==
    /\ IsPrefix(trace, StageOrder)
    /\ failed # "none" => (trace = StagesUpTo(failed) /\ ret.kind # "ok")
    /\ ret.kind = "ok" => (trace = StageOrder /\ failed = "none")
    /\ ret.kind = "err" => failed # "none"

C2_Witness ==
    /\ failed = "decode"
    /\ ret.kind = "err"
    /\ pc = "panicked"
    /\ trace = SubSeq(StageOrder, 1, 3)

\* C3: a run that succeeds returns an image whose width and height are those
\* of the input image.
C3_OutputHasInputSize ==
    ret.kind = "ok" => SameSize(ret.img, original)

C3_Witness ==
    /\ pc = "returned"
    /\ ret.kind = "ok"
    /\ original.w = 1
    /\ original.h = MaxDim
    /\ SameSize(ret.img, original)

\* every score equal (max == min): no NaN, every element the same value
UniformScores(v) ==
    /\ v.data # <<>>
    /\ v.data[1].kind # "nan"
    /\ \A i \in 1..Len(v.data) : v.data[i] = v.data[1]

ModelShaped(v) == v.h = ML_MODEL_IMAGE_HEIGHT /\ v.w = ML_MODEL_IMAGE_WIDTH

Decoded == pc \in {"resize", "apply", "returned", "panicked"} /\ Len(trace) >= 3

\* C4: when every score of a model-resolution output is equal, decode does
\* not fail; it returns the mask in which every byte is the fallback 0.
C4_DegenerateMaskIsZero ==
    (Decoded /\ ModelShaped(view) /\ UniformScores(view)) =>
        /\ failed # "decode"
        /\ image.w = ML_MODEL_IMAGE_WIDTH
        /\ image.h = ML_MODEL_IMAGE_HEIGHT
        /\ Len(image.buf) = 3 * ML_MODEL_IMAGE_WIDTH * ML_MODEL_IMAGE_HEIGHT
        /\ \A j \in 1..Len(image.buf) : image.buf[j] = 0

C4_Witness ==
    /\ pc = "resize"
    /\ ModelShaped(view)
    /\ UniformScores(view)
    /\ view.data[1] = Fin(1, 1)
    /\ \A j \in 1..Len(image.buf) : image.buf[j] = 0

\* the output tensor has not the expected shape: another rank, or a height
\* or width other than the model resolution (an empty tensor included)
Malformed(shape) ==
    \/ Len(shape) # 4
    \/ shape[3] # ML_MODEL_IMAGE_HEIGHT
    \/ shape[4] # ML_MODEL_IMAGE_WIDTH

\* C7: decoding an output tensor of another shape than the expected one
\* yields a typed error; it never panics and never yields a mask.
C7_MalformedShapeIsAnError ==
    (outputs # NoTensor /\ Malformed(outputs.shape)) =>
        /\ pc \notin {"resize", "apply"}
        /\ ret.kind # "ok"
        /\ ~(pc = "panicked" /\ failed \in {"extract", "decode"} /\ ret.kind # "err")

\* C8: over any sequence of invocations the session is constructed exactly
\* once and every invocation uses that one session.
C8_SessionConstructedOnce ==
    /\ loads <= 1
    /\ session # 0 => session = 1

\* C10: the tensor has shape (3, H_model, W_model) and its flat element
\* c * N + i is byte c of pixel i of the resized image, over 255, minus 0.5
\* (alpha dropped); every element lies in [-0.5, 0.5].
C10_PlanarNormalisedTensor ==
    tensor # NoTensor =>
        LET N == ML_MODEL_IMAGE_HEIGHT * ML_MODEL_IMAGE_WIDTH
        IN  /\ tensor.shape = <<3, ML_MODEL_IMAGE_HEIGHT, ML_MODEL_IMAGE_WIDTH>>
            /\ Len(tensor.data) = 3 * N
            /\ Len(img_vec) = 4 * N
            /\ \A c \in 0..2, i \in 0..(N - 1) :
                 LET e == tensor.data[c * N + i + 1]
                 IN  /\ e[2] > 0
                     /\ e[1] * 510 = (2 * img_vec[4 * i + c + 1] - 255) * e[2]
                     /\ -e[2] <= 2 * e[1]
                     /\ 2 * e[1] <= e[2]

C10_Witness ==
    /\ pc = "run"
    /\ tensor # NoTensor
    /\ img_vec[1] = 10 /\ img_vec[2] = 20 /\ img_vec[3] = 30
    /\ LET N == ML_MODEL_IMAGE_HEIGHT * ML_MODEL_IMAGE_WIDTH
       IN  /\ REq(tensor.data[1], <<-235, 510>>)
           /\ REq(tensor.data[N + 1], <<-215, 510>>)
           /\ REq(tensor.data[2 * N + 1], <<-195, 510>>)

\* the pixels resize_rgba keeps exactly: opaque ones and all-zero ones
KeptExactly(buf) ==
    \A p \in 0..((Len(buf) \div 4) - 1) :
        \/ buf[4 * p + 4] = 255
        \/ \A c \in 1..4 : buf[4 * p + c] = 0

Resized == pc = "resize_out" /\ SameSize(mask, original)

\* C9 as stated: resizing any RGBA image to its current size returns a
\* buffer identical to the image's RGBA pixels.
C9_SameSizeIsIdentity ==
    Resized => img_vec = to_rgba8(original).buf

\* C9 amended: resizing an image to its current size returns a buffer
\* identical to its RGBA pixels when every pixel is opaque (alpha 255) or
\* all zero.
C9_SameSizeIsIdentityWhenOpaque ==
    (Resized /\ KeptExactly(to_rgba8(original).buf)) =>
        img_vec = to_rgba8(original).buf

C9_Witness ==
    /\ Resized
    /\ original.ch = 4
    /\ original.w = 1
    /\ original.h = MaxDim
    /\ KeptExactly(original.buf)
    /\ original.buf[1] = 10
    /\ original.buf[5] = 255
    /\ img_vec = original.buf

\* C5: for an original and a mask of the same size, apply_mask returns an
\* RGBA image of that size whose pixel at (x, y) is the original's R, G, B at
\* (x, y) with the mask's channel value at (x, y) as alpha.
C5_CompositeIsRgbPlusMask ==
    (pc # "mask_in" /\ SameSize(mask, original)) =>
        /\ pc = "mask_out"
        /\ ret.kind = "ok"
        /\ SameSize(ret.img, original)
        /\ ret.img.ch = 4
        /\ Len(ret.img.buf) = 4 * original.w * original.h
        /\ \A x \in 0..(original.w - 1), y \in 0..(original.h - 1) :
             get_pixel(ret.img, x, y) =
                <<get_pixel(original, x, y)[1], get_pixel(original, x, y)[2],
                  get_pixel(original, x, y)[3], get_pixel(mask, x, y)[1]>>

C5_Witness ==
    /\ pc = "mask_out"
    /\ SameSize(mask, original)
    /\ original.w = MaxDim
    /\ SubSeq(original.buf, 1, 3) = <<10, 20, 30>>
    /\ get_pixel(mask, 0, 0) = <<200, 100, 50, 128>>
    /\ get_pixel(ret.img, 0, 0) = <<10, 20, 30, 200>>

\* C6: when the mask's size differs from the original's, compositing fails
\* with a DimensionMismatch error and produces no image.
C6_SizeMismatchIsAnError ==
    (pc # "mask_in" /\ ~SameSize(mask, original)) =>
        /\ ret.kind = "err"
        /\ ret.err = "DimensionMismatch"
        /\ pc # "panicked"

====
